---- MODULE Spec2Model ----
(***************************************************************************)
(* Sandbox resolution and re-execution of gemini-cli (package sandbox and  *)
(* the root command's PersistentPreRunE).                                  *)
(*                                                                         *)
(* Go strings are modelled as sequences of one-character strings, so that  *)
(* strings.TrimSpace, strings.ToLower, fmt.Sprintf("SANDBOX=%s", ...) and  *)
(* the lookup of a key in an environment block are computed, not assumed.  *)
(* The process environment is the block os.Environ() returns: a sequence   *)
(* of "KEY=VALUE" strings, in which os.Getenv finds the first entry of a   *)
(* key.                                                                    *)
(***************************************************************************)
EXTENDS Integers, Sequences, FiniteSets, TLC

VARIABLES
    env,                \* the process environment block (os.Environ())
    sandboxOption,      \* the option handed to LoadConfig / getSandboxCommand
    sandboxImageOption, \* the image override handed to LoadConfig
    runtimeGOOS,        \* the platform identifier
    present,            \* the names for which commandExists reports true
    pc,                 \* position of the process
    cmdRes,             \* last result of getSandboxCommand
    cfgRes,             \* last result of LoadConfig
    launch,             \* the last launch attempt (Start and the launchers)
    hops,               \* how many times the process image was replaced
    osArgs,             \* os.Args of the process
    cli,                \* the parsed flags and the loaded settings
    run                 \* the non-interactive runner (noninteractive.Run)

vars == <<env, sandboxOption, sandboxImageOption, runtimeGOOS, present,
          pc, cmdRes, cfgRes, launch, hops, osArgs, cli, run>>

-----------------------------------------------------------------------------
(* Strings *)

S_1 == <<"1">>
S_0 == <<"0">>
S_true == <<"t","r","u","e">>
S_false == <<"f","a","l","s","e">>
S_True == <<"T","r","u","e">>
S_FALSE == <<"F","A","L","S","E">>
S_blank == <<" ">>
S_docker == <<"d","o","c","k","e","r">>
S_podman == <<"p","o","d","m","a","n">>
S_sandbox_exec == <<"s","a","n","d","b","o","x","-","e","x","e","c">>
S_Docker_padded == <<" ","D","o","c","k","e","r","\n">>
S_lxc == <<"l","x","c">>
S_darwin == <<"d","a","r","w","i","n">>
S_linux == <<"l","i","n","u","x">>
S_img_flag == <<"i","m","g","-","f","l","a","g">>
S_img_env == <<"i","m","g","-","e","n","v">>
S_img_cfg == <<"i","m","g","-","c","f","g">>
S_SANDBOX == <<"S","A","N","D","B","O","X">>
S_GEMINI_SANDBOX == <<"G","E","M","I","N","I","_","S","A","N","D","B","O","X">>
S_GEMINI_SANDBOX_IMAGE == S_GEMINI_SANDBOX \o <<"_","I","M","A","G","E">>
S_eq == <<"=">>
S_run == <<"r","u","n">>
S_i == <<"-","i">>
S_rm == <<"-","-","r","m">>
S_init == <<"-","-","i","n","i","t">>
S_t == <<"-","t">>
S_volume == <<"-","-","v","o","l","u","m","e">>
S_workdir == <<"-","-","w","o","r","k","d","i","r">>
S_env == <<"-","-","e","n","v">>
S_colon == <<":">>
S_f == <<"-","f">>
S_D == <<"-","D">>
S_TARGET_DIR == <<"T","A","R","G","E","T","_","D","I","R">>
S_TMP_DIR == <<"T","M","P","_","D","I","R">>
S_HOME_DIR == <<"H","O","M","E","_","D","I","R">>
S_CACHE_DIR == <<"C","A","C","H","E","_","D","I","R">>
S_INCLUDE_DIR_ == <<"I","N","C","L","U","D","E","_","D","I","R","_">>
S_dev_null == <<"/","d","e","v","/","n","u","l","l">>
S_SEATBELT_PROFILE == <<"S","E","A","T","B","E","L","T","_","P","R","O","F","I","L","E">>
S_permissive_open == <<"p","e","r","m","i","s","s","i","v","e","-","o","p","e","n">>
S_restrictive_closed == <<"r","e","s","t","r","i","c","t","i","v","e","-","c","l","o","s","e","d">>
S_non_existent_profile == <<"n","o","n","-","e","x","i","s","t","e","n","t","-","p","r","o","f","i","l","e">>
S_tmpfile == <<"/","t","m","p","/","s","a","n","d","b","o","x","-","p","r","o","f","i","l","e","-","1",".","s","b">>
S_cwd == <<"/","w">>
S_cwd_alt == <<"/","s","r","c">>
S_tmpdir == <<"/","t","m","p">>
S_home == <<"/","h">>
S_cache == <<"/","h","/",".","c","a","c","h","e">>
S_gemini == <<"g","e","m","i","n","i">>
S_dash_s == <<"-","s">>
S_dash_p == <<"-","p">>
S_hi == <<"h","i">>
S_Digits == <<"0","1","2","3","4">>

UpperChars == <<"A","B","C","D","E","F","G","H","I","J","K","L","M",
                "N","O","P","Q","R","S","T","U","V","W","X","Y","Z">>
LowerChars == <<"a","b","c","d","e","f","g","h","i","j","k","l","m",
                "n","o","p","q","r","s","t","u","v","w","x","y","z">>
SpaceChars == {" ", "\t", "\n", "\r", "\f"}

\* strings.ToLower, on the ASCII letters
ToLower(s) ==
    [i \in 1..Len(s) |->
        IF \E k \in 1..Len(UpperChars) : UpperChars[k] = s[i]
        THEN LowerChars[CHOOSE k \in 1..Len(UpperChars) : UpperChars[k] = s[i]]
        ELSE s[i]]

\* strings.TrimSpace: drops the leading and the trailing white space
TrimSpace(s) ==
    LET keep == {i \in 1..Len(s) : s[i] \notin SpaceChars}
    IN  IF keep = {} THEN <<>>
        ELSE LET lo == CHOOSE i \in keep : \A j \in keep : i <= j
                 hi == CHOOSE i \in keep : \A j \in keep : j <= i
             IN  SubSeq(s, lo, hi)

\* fmt.Sprintf("KEY=%s", value)
Sprintf_KeyEq(key, value) == key \o S_eq \o value

\* index of the first "=" of an entry, 0 when there is none
EqIndex(e) ==
    IF \E i \in 1..Len(e) : e[i] = "="
    THEN CHOOSE i \in 1..Len(e) : e[i] = "=" /\ \A j \in 1..(i-1) : e[j] # "="
    ELSE 0

EntryKey(e) == SubSeq(e, 1, EqIndex(e) - 1)
EntryValue(e) == SubSeq(e, EqIndex(e) + 1, Len(e))

\* os.Getenv: the value of the first entry of the key, "" when there is none
Getenv(block, key) ==
    LET hits == {i \in 1..Len(block) : EqIndex(block[i]) > 0 /\ EntryKey(block[i]) = key}
    IN  IF hits = {} THEN <<>>
        ELSE EntryValue(block[CHOOSE i \in hits : \A j \in hits : i <= j])

-----------------------------------------------------------------------------
(* Values *)

NoErr == "nil"
ErrInvalidCommand == "invalid sandbox command"
ErrMissingCommand == "missing sandbox command"
ErrUndetermined == "failed to determine command for sandbox"
ErrNoImage == "sandbox image is not specified"

\* the option is a Go `any`: nil, a bool, a string, or a value of another type
NilOption == [kind |-> "nil", b |-> FALSE, s |-> <<>>]
BoolOption(v) == [kind |-> "bool", b |-> v, s |-> <<>>]
StringOption(v) == [kind |-> "string", b |-> FALSE, s |-> v]
OtherOption == [kind |-> "other", b |-> FALSE, s |-> <<>>]

validCommands == <<S_docker, S_podman, S_sandbox_exec>>

DefaultImage ==
    <<"u","s","-","d","o","c","k","e","r",".","p","k","g",".","d","e","v","/",
      "g","e","m","i","n","i","-","c","o","d","e","-","d","e","v","/",
      "g","e","m","i","n","i","-","c","l","i","/",
      "s","a","n","d","b","o","x",":","l","a","t","e","s","t">>

NilConfig == [isNil |-> TRUE, Command |-> <<>>, Image |-> <<>>]
Config(command, image) == [isNil |-> FALSE, Command |-> command, Image |-> image]

-----------------------------------------------------------------------------
(* Policy resolution: getSandboxCommand *)

\* mutant: a requested seatbelt profile also counts as being inside a sandbox
IsInsideSandbox_OrProfile(block) ==
    Getenv(block, S_SANDBOX) # <<>> \/ Getenv(block, S_SEATBELT_PROFILE) # <<>>

IsInsideSandbox(block) == Getenv(block, S_SANDBOX) # <<>>

\* the injectable probe; true for the names in `present`
commandExists(cmd) == cmd \in present

\* mutant: the override is applied only when no option was given
EffectiveOption_OptionWins(opt, block) ==
    LET envSandbox == Getenv(block, S_GEMINI_SANDBOX)
    IN  IF envSandbox # <<>> /\ opt.kind = "nil" THEN StringOption(envSandbox) ELSE opt

\* GEMINI_SANDBOX, when non-empty, replaces the option
EffectiveOption(opt, block) ==
    LET envSandbox == Getenv(block, S_GEMINI_SANDBOX)
    IN  IF envSandbox # <<>> THEN StringOption(envSandbox) ELSE opt

\* mutant: "0" is not among the disabling strings
InterpretOption_ZeroForgotten(o) ==
    CASE o.kind = "bool" -> [sandbox |-> o.b, sandboxCmd |-> <<>>]
      [] o.kind = "string" ->
            LET val == ToLower(TrimSpace(o.s))
            IN  IF val = S_1 \/ val = S_true
                THEN [sandbox |-> TRUE, sandboxCmd |-> <<>>]
                ELSE IF val = S_false \/ val = <<>>
                THEN [sandbox |-> FALSE, sandboxCmd |-> <<>>]
                ELSE [sandbox |-> FALSE, sandboxCmd |-> val]
      [] OTHER -> [sandbox |-> FALSE, sandboxCmd |-> <<>>]

\* mutant: the string is compared as given, not trimmed and lower-cased
InterpretOption_Raw(o) ==
    CASE o.kind = "bool" -> [sandbox |-> o.b, sandboxCmd |-> <<>>]
      [] o.kind = "string" ->
            IF o.s = S_1 \/ o.s = S_true
            THEN [sandbox |-> TRUE, sandboxCmd |-> <<>>]
            ELSE IF o.s = S_0 \/ o.s = S_false \/ o.s = <<>>
            THEN [sandbox |-> FALSE, sandboxCmd |-> <<>>]
            ELSE [sandbox |-> FALSE, sandboxCmd |-> o.s]
      [] OTHER -> [sandbox |-> FALSE, sandboxCmd |-> <<>>]

\* the type switch: the pair (sandbox, sandboxCmd)
InterpretOption(o) ==
    CASE o.kind = "bool" -> [sandbox |-> o.b, sandboxCmd |-> <<>>]
      [] o.kind = "string" ->
            LET val == ToLower(TrimSpace(o.s))
            IN  IF val = S_1 \/ val = S_true
                THEN [sandbox |-> TRUE, sandboxCmd |-> <<>>]
                ELSE IF val = S_0 \/ val = S_false \/ val = <<>>
                THEN [sandbox |-> FALSE, sandboxCmd |-> <<>>]
                ELSE [sandbox |-> FALSE, sandboxCmd |-> val]
      [] OTHER -> [sandbox |-> FALSE, sandboxCmd |-> <<>>]

isValidCmd_AnyName(cmd) == cmd # <<>>

isValidCmd(cmd) == \E i \in 1..Len(validCommands) : validCommands[i] = cmd

\* a result of getSandboxCommand; probed lists the names handed to the probe
Result(cmd, err, probed) == [cmd |-> cmd, err |-> err, probed |-> probed]

\* mutant: the probe is consulted before the name is validated
ExplicitCommand_ProbeFirst(sandboxCmd) ==
    IF ~commandExists(sandboxCmd)
    THEN Result(<<>>, ErrMissingCommand, <<sandboxCmd>>)
    ELSE IF ~isValidCmd(sandboxCmd)
    THEN Result(<<>>, ErrInvalidCommand, <<sandboxCmd>>)
    ELSE Result(sandboxCmd, NoErr, <<sandboxCmd>>)

\* mutant: a missing executable is replaced by docker when docker exists
ExplicitCommand_Downgrade(sandboxCmd) ==
    IF ~isValidCmd(sandboxCmd)
    THEN Result(<<>>, ErrInvalidCommand, <<>>)
    ELSE IF ~commandExists(sandboxCmd)
    THEN IF commandExists(S_docker)
         THEN Result(S_docker, NoErr, <<sandboxCmd, S_docker>>)
         ELSE Result(<<>>, ErrMissingCommand, <<sandboxCmd, S_docker>>)
    ELSE Result(sandboxCmd, NoErr, <<sandboxCmd>>)

\* an explicit backend name: validated, then probed, never downgraded
ExplicitCommand(sandboxCmd) ==
    IF ~isValidCmd(sandboxCmd)
    THEN Result(<<>>, ErrInvalidCommand, <<>>)
    ELSE IF ~commandExists(sandboxCmd)
    THEN Result(<<>>, ErrMissingCommand, <<sandboxCmd>>)
    ELSE Result(sandboxCmd, NoErr, <<sandboxCmd>>)

\* mutant: sandbox-exec is taken wherever it exists, whatever the platform
FallbackCommand_AnyPlatform(sandbox, goos) ==
    LET p1 == <<S_sandbox_exec>>
        p2 == p1 \o <<S_docker>>
        p3 == p2 \o <<S_podman>>
    IN  IF commandExists(S_sandbox_exec)
        THEN Result(S_sandbox_exec, NoErr, p1)
        ELSE IF commandExists(S_docker) /\ sandbox
        THEN Result(S_docker, NoErr, p2)
        ELSE IF commandExists(S_podman) /\ sandbox
        THEN Result(S_podman, NoErr, p3)
        ELSE IF sandbox
        THEN Result(<<>>, ErrUndetermined, p3)
        ELSE Result(<<>>, NoErr, p3)

\* mutant: when no backend is found the request is dropped without an error
FallbackCommand_Silent(sandbox, goos) ==
    LET p1 == IF goos = S_darwin THEN <<S_sandbox_exec>> ELSE <<>>
        p2 == p1 \o <<S_docker>>
        p3 == p2 \o <<S_podman>>
    IN  IF goos = S_darwin /\ commandExists(S_sandbox_exec)
        THEN Result(S_sandbox_exec, NoErr, p1)
        ELSE IF commandExists(S_docker) /\ sandbox
        THEN Result(S_docker, NoErr, p2)
        ELSE IF commandExists(S_podman) /\ sandbox
        THEN Result(S_podman, NoErr, p3)
        ELSE Result(<<>>, NoErr, p3)

\* no explicit name: the platform fallback order
FallbackCommand(sandbox, goos) ==
    LET p1 == IF goos = S_darwin THEN <<S_sandbox_exec>> ELSE <<>>
        p2 == p1 \o <<S_docker>>
        p3 == p2 \o <<S_podman>>
    IN  IF goos = S_darwin /\ commandExists(S_sandbox_exec)
        THEN Result(S_sandbox_exec, NoErr, p1)
        ELSE IF commandExists(S_docker) /\ sandbox
        THEN Result(S_docker, NoErr, p2)
        ELSE IF commandExists(S_podman) /\ sandbox
        THEN Result(S_podman, NoErr, p3)
        ELSE IF sandbox
        THEN Result(<<>>, ErrUndetermined, p3)
        ELSE Result(<<>>, NoErr, p3)

\* getSandboxCommand below the guard
ResolveCommand(opt, block, goos) ==
    LET i == InterpretOption(EffectiveOption(opt, block))
    IN  IF ~i.sandbox /\ i.sandboxCmd = <<>>
        THEN Result(<<>>, NoErr, <<>>)
        ELSE IF i.sandboxCmd # <<>>
        THEN ExplicitCommand(i.sandboxCmd)
        ELSE FallbackCommand(i.sandbox, goos)

\* mutant: the self-detection guard is not consulted
getSandboxCommand_NoGuard(opt, block, goos) == ResolveCommand(opt, block, goos)

getSandboxCommand(opt, block, goos) ==
    IF IsInsideSandbox(block)
    THEN Result(<<>>, NoErr, <<>>)
    ELSE ResolveCommand(opt, block, goos)

-----------------------------------------------------------------------------
(* Config builder: LoadConfig *)

\* mutant: GEMINI_SANDBOX_IMAGE is preferred to the override
ResolveImage_EnvFirst(imageOption, block) ==
    LET fromEnv == IF Getenv(block, S_GEMINI_SANDBOX_IMAGE) = <<>>
                   THEN imageOption
                   ELSE Getenv(block, S_GEMINI_SANDBOX_IMAGE)
    IN  IF fromEnv = <<>> THEN DefaultImage ELSE fromEnv

\* mutant: no default image is substituted when none is given
ResolveImage_NoDefault(imageOption, block) ==
    IF imageOption = <<>>
    THEN Getenv(block, S_GEMINI_SANDBOX_IMAGE)
    ELSE imageOption

\* override, else GEMINI_SANDBOX_IMAGE, else the built-in default
ResolveImage(imageOption, block) ==
    LET fromEnv == IF imageOption = <<>>
                   THEN Getenv(block, S_GEMINI_SANDBOX_IMAGE)
                   ELSE imageOption
    IN  IF fromEnv = <<>> THEN DefaultImage ELSE fromEnv

\* the config LoadConfig builds once a backend and an image are known
BuildConfig(command, image) ==
    IF image = <<>> /\ command # S_sandbox_exec
    THEN [cfg |-> NilConfig, err |-> ErrNoImage]
    ELSE [cfg |-> Config(command, image), err |-> NoErr]

\* mutant: the config carries the raw override instead of the resolved image
LoadConfig_RawOverride(opt, imageOption, block, goos) ==
    LET r == getSandboxCommand(opt, block, goos)
    IN  IF r.err # NoErr THEN [cfg |-> NilConfig, err |-> r.err]
        ELSE IF r.cmd = <<>> THEN [cfg |-> NilConfig, err |-> NoErr]
        ELSE IF ResolveImage(imageOption, block) = <<>> /\ r.cmd # S_sandbox_exec
        THEN [cfg |-> NilConfig, err |-> ErrNoImage]
        ELSE [cfg |-> Config(r.cmd, imageOption), err |-> NoErr]

LoadConfig(opt, imageOption, block, goos) ==
    LET r == getSandboxCommand(opt, block, goos)
    IN  IF r.err # NoErr THEN [cfg |-> NilConfig, err |-> r.err]
        ELSE IF r.cmd = <<>> THEN [cfg |-> NilConfig, err |-> NoErr]
        ELSE BuildConfig(r.cmd, ResolveImage(imageOption, block))

-----------------------------------------------------------------------------
(* Launchers: Start, startContainer, startSandboxExec, runCommandWithEnv *)

ErrUnknownCommand == "unknown sandbox command"
ErrImageCheck == "failed to check if image exists"
ErrPull == "failed to pull image"
ErrImageCheckAfterPull == "failed to check if image exists after pull"
ErrImageUnavailable == "failed to obtain sandbox image after pull attempt"
ErrGetwd == "failed to get current working directory"
ErrMissingProfile == "missing macos seatbelt profile"
ErrCreateTemp == "failed to create temp profile file"
ErrWriteTemp == "failed to write to temp profile file"
ErrCloseTemp == "failed to close temp profile file"
ErrHomeDir == "failed to get home directory"
ErrCacheDir == "failed to get cache directory"
ErrExecNotFound == "executable not found"
ErrExec == "failed to exec command"
ErrNilDereference == "panic: invalid memory address or nil pointer dereference"

\* the templates embedded from profiles/*.sb
BundledProfiles == {S_permissive_open, S_restrictive_closed}
ProfileData(name) == <<"(", "p", "r", "o", "f", "i", "l", "e", " ">> \o name \o <<")">>

\* os.Environ(): the block without the later entries of a key already seen
Environ(block) ==
    LET dup(i) == /\ EqIndex(block[i]) > 0
                  /\ \E j \in 1..(i-1) : /\ EqIndex(block[j]) > 0
                                         /\ EntryKey(block[j]) = EntryKey(block[i])
    IN  SelectSeq([i \in 1..Len(block) |-> IF dup(i) THEN <<>> ELSE block[i]],
                  LAMBDA e : e # <<>>)

\* the outcome of a launch: it returned an error, the image was replaced, or
\* the process panicked. calls lists the external and filesystem calls in the
\* order they were made, each with what it answered; tmp is the transient
\* profile file ("none", "exists" or "removed") and content what it holds.
Launch(state, err, calls, argv, execEnv, tmp, content) ==
    [state |-> state, err |-> err, calls |-> calls, argv |-> argv,
     execEnv |-> execEnv, tmp |-> tmp, content |-> content]

Returned(err, calls, tmp) ==
    Launch("returned", err, calls, <<>>, <<>>, tmp, <<>>)

\* a call made during a launch and its answer
CallV(op, res, val) == [op |-> op, res |-> res, val |-> val]
Call(op, res) == CallV(op, res, <<>>)

\* what the outside world answers during one launch
Dirs == {S_cwd, S_cwd_alt}

\* what os.Stdin.Stat() can answer: a terminal, a character device that is
\* not a terminal (/dev/null), a pipe or regular file, or an error; and the
\* answers whose mode has os.ModeCharDevice set
StdinKinds == {"tty", "chardev", "notty", "error"}
ModeCharDevice == {"tty", "chardev"}

ContainerWorlds ==
    [probe1 : {"error", "present", "absent"}, pull : {"ok", "fail"},
     probe2 : {"error", "present", "absent"}, tty : StdinKinds,
     getwd : {"ok", "fail"}, cwd : Dirs, exec : {"notfound", "fail", "replaced"}]

ProfileWorlds ==
    [createTemp : {"ok", "fail"}, write : {"ok", "fail"}, close : {"ok", "fail"},
     getwd : {"ok", "fail"}, cwd : Dirs, home : {"ok", "fail"},
     cache : {"ok", "fail"}, exec : {"notfound", "fail", "replaced"}]

NoWorld == [exec |-> "notfound"]

\* mutant: the command is run as a child and its success is returned
runCommandWithEnv_RunsChild(name, envv, arg, calls, tmp, content, w) ==
    IF w.exec = "notfound"
    THEN Launch("returned", ErrExecNotFound, calls \o <<Call("LookPath", "fail")>>,
                <<>>, <<>>, tmp, content)
    ELSE IF w.exec = "fail"
    THEN Launch("returned", ErrExec,
                calls \o <<Call("LookPath", "ok"), Call("Exec", "fail")>>,
                <<name>> \o arg, envv, tmp, content)
    ELSE Launch("returned", NoErr,
                calls \o <<Call("LookPath", "ok"), Call("Exec", "ok")>>,
                <<name>> \o arg, envv, tmp, content)

\* runCommandWithEnv: returns only when LookPath or the exec syscall fails
runCommandWithEnv(name, envv, arg, calls, tmp, content, w) ==
    IF w.exec = "notfound"
    THEN Launch("returned", ErrExecNotFound, calls \o <<Call("LookPath", "fail")>>,
                <<>>, <<>>, tmp, content)
    ELSE IF w.exec = "fail"
    THEN Launch("returned", ErrExec,
                calls \o <<Call("LookPath", "ok"), Call("Exec", "fail")>>,
                <<name>> \o arg, envv, tmp, content)
    ELSE Launch("replaced", NoErr,
                calls \o <<Call("LookPath", "ok"), Call("Exec", "ok")>>,
                <<name>> \o arg, envv, tmp, content)

\* mutant: a second pull is attempted when the image is still absent
ensureSandboxImageIsPresent_PullsAgain(sandboxCmd, image, w) ==
    LET c1 == <<Call("images", w.probe1)>>
        c2 == c1 \o <<Call("pull", w.pull)>>
        c3 == c2 \o <<Call("images", w.probe2)>>
        c4 == c3 \o <<Call("pull", w.pull), Call("images", w.probe2)>>
    IN  IF w.probe1 = "error" THEN [err |-> ErrImageCheck, calls |-> c1]
        ELSE IF w.probe1 = "present" THEN [err |-> NoErr, calls |-> c1]
        ELSE IF w.pull = "fail" THEN [err |-> ErrPull, calls |-> c2]
        ELSE IF w.probe2 = "error" THEN [err |-> ErrImageCheckAfterPull, calls |-> c3]
        ELSE IF w.probe2 = "absent" THEN [err |-> ErrImageUnavailable, calls |-> c4]
        ELSE [err |-> NoErr, calls |-> c3]

\* mutant: a successful pull is trusted without probing again
ensureSandboxImageIsPresent_TrustsPull(sandboxCmd, image, w) ==
    LET c1 == <<Call("images", w.probe1)>>
        c2 == c1 \o <<Call("pull", w.pull)>>
    IN  IF w.probe1 = "error" THEN [err |-> ErrImageCheck, calls |-> c1]
        ELSE IF w.probe1 = "present" THEN [err |-> NoErr, calls |-> c1]
        ELSE IF w.pull = "fail" THEN [err |-> ErrPull, calls |-> c2]
        ELSE [err |-> NoErr, calls |-> c2]

ensureSandboxImageIsPresent(sandboxCmd, image, w) ==
    LET c1 == <<Call("images", w.probe1)>>
        c2 == c1 \o <<Call("pull", w.pull)>>
        c3 == c2 \o <<Call("images", w.probe2)>>
    IN  IF w.probe1 = "error" THEN [err |-> ErrImageCheck, calls |-> c1]
        ELSE IF w.probe1 = "present" THEN [err |-> NoErr, calls |-> c1]
        ELSE IF w.pull = "fail" THEN [err |-> ErrPull, calls |-> c2]
        ELSE IF w.probe2 = "error" THEN [err |-> ErrImageCheckAfterPull, calls |-> c3]
        ELSE IF w.probe2 = "absent" THEN [err |-> ErrImageUnavailable, calls |-> c3]
        ELSE [err |-> NoErr, calls |-> c3]

\* the marker the container launcher passes with --env
ContainerMarker(command) == Sprintf_KeyEq(S_SANDBOX, command)

\* mutant: the whole of os.Args is appended after the program path
ContainerArgs_ProgramTwice(cfg, tty, workDir, argv0, args) ==
    <<S_run, S_i, S_rm, S_init>>
        \o (IF tty THEN <<S_t>> ELSE <<>>)
        \o <<S_volume, workDir \o S_colon \o workDir>>
        \o <<S_workdir, workDir>>
        \o <<S_env, ContainerMarker(cfg.Command)>>
        \o <<cfg.Image>>
        \o <<argv0>>
        \o (<<argv0>> \o args)

\* the arguments of the container invocation
ContainerArgs(cfg, tty, workDir, argv0, args) ==
    <<S_run, S_i, S_rm, S_init>>
        \o (IF tty THEN <<S_t>> ELSE <<>>)
        \o <<S_volume, workDir \o S_colon \o workDir>>
        \o <<S_workdir, workDir>>
        \o <<S_env, ContainerMarker(cfg.Command)>>
        \o <<cfg.Image>>
        \o <<argv0>>
        \o args

\* mutant: the error of os.Getwd is ignored
startContainer_GetwdIgnored(cfg, args, argv0, block, w) ==
    LET e == ensureSandboxImageIsPresent(cfg.Command, cfg.Image, w)
        stat == e.calls \o <<Call("Stat", w.tty)>>
        workDir == IF w.getwd = "ok" THEN w.cwd ELSE <<>>
    IN  IF e.err # NoErr THEN Returned(e.err, e.calls, "none")
        ELSE IF w.tty = "error"
        THEN Launch("panic", ErrNilDereference, stat, <<>>, <<>>, "none", <<>>)
        ELSE runCommandWithEnv(cfg.Command, Environ(block),
                               ContainerArgs(cfg, w.tty \in ModeCharDevice, workDir, argv0, args),
                               stat \o <<CallV("Getwd", w.getwd, workDir)>>,
                               "none", <<>>, w)

\* os.Stdin.Stat() failing leaves fileInfo nil, and fileInfo.Mode() panics
startContainer(cfg, args, argv0, block, w) ==
    LET e == ensureSandboxImageIsPresent(cfg.Command, cfg.Image, w)
        stat == e.calls \o <<Call("Stat", w.tty)>>
    IN  IF e.err # NoErr THEN Returned(e.err, e.calls, "none")
        ELSE IF w.tty = "error"
        THEN Launch("panic", ErrNilDereference, stat, <<>>, <<>>, "none", <<>>)
        ELSE IF w.getwd = "fail"
        THEN Returned(ErrGetwd, stat \o <<Call("Getwd", "fail")>>, "none")
        ELSE runCommandWithEnv(cfg.Command, Environ(block),
                               ContainerArgs(cfg, w.tty \in ModeCharDevice, w.cwd, argv0, args),
                               stat \o <<CallV("Getwd", "ok", w.cwd)>>,
                               "none", <<>>, w)

\* the marker the profile launcher appends to the environment
ProfileMarker == Sprintf_KeyEq(S_SANDBOX, S_sandbox_exec)

\* mutant: the file is removed only after the handoff was attempted
Deferred_OnlyAfterHandoff(l) ==
    IF l.state = "returned" /\ l.tmp = "exists" /\ l.err \in {ErrExecNotFound, ErrExec}
    THEN [l EXCEPT !.tmp = "removed", !.calls = l.calls \o <<Call("Remove", "ok")>>]
    ELSE l

\* mutant: the file is removed on every path, the successful handoff included
Deferred_EveryPath(l) ==
    IF l.tmp = "exists"
    THEN [l EXCEPT !.tmp = "removed", !.calls = l.calls \o <<Call("Remove", "ok")>>]
    ELSE l

\* the deferred os.Remove runs whenever startSandboxExec returns
Deferred(l) ==
    IF l.state = "returned" /\ l.tmp = "exists"
    THEN [l EXCEPT !.tmp = "removed", !.calls = l.calls \o <<Call("Remove", "ok")>>]
    ELSE l

\* mutant: the error of fs.ReadFile is ignored
ReadProfile_ErrorIgnored(name) == [ok |-> TRUE, data |-> ProfileData(name)]

\* fs.ReadFile(profiles, "profiles/<name>.sb")
ReadProfile(name) == [ok |-> name \in BundledProfiles, data |-> ProfileData(name)]

\* mutant: the include-directory loop stops one short
ProfileArgs_FourIncludes(path, workDir, argv0, args) ==
    LET includeDirs ==
            [i \in 1..Len(S_Digits) |->
                <<S_D, Sprintf_KeyEq(S_INCLUDE_DIR_ \o <<S_Digits[i]>>, S_dev_null)>>]
    IN  <<S_f, path,
          S_D, Sprintf_KeyEq(S_TARGET_DIR, workDir),
          S_D, Sprintf_KeyEq(S_TMP_DIR, S_tmpdir),
          S_D, Sprintf_KeyEq(S_HOME_DIR, S_home),
          S_D, Sprintf_KeyEq(S_CACHE_DIR, S_cache)>>
            \o includeDirs[1] \o includeDirs[2] \o includeDirs[3]
            \o includeDirs[4]
            \o (<<argv0>> \o args)

\* the arguments of the sandbox-exec invocation
ProfileArgs(path, workDir, argv0, args) ==
    LET includeDirs ==
            [i \in 1..Len(S_Digits) |->
                <<S_D, Sprintf_KeyEq(S_INCLUDE_DIR_ \o <<S_Digits[i]>>, S_dev_null)>>]
    IN  <<S_f, path,
          S_D, Sprintf_KeyEq(S_TARGET_DIR, workDir),
          S_D, Sprintf_KeyEq(S_TMP_DIR, S_tmpdir),
          S_D, Sprintf_KeyEq(S_HOME_DIR, S_home),
          S_D, Sprintf_KeyEq(S_CACHE_DIR, S_cache)>>
            \o includeDirs[1] \o includeDirs[2] \o includeDirs[3]
            \o includeDirs[4] \o includeDirs[5]
            \o (<<argv0>> \o args)

startSandboxExec(cfg, args, argv0, block, w) ==
    LET fromEnv == Getenv(block, S_SEATBELT_PROFILE)
        profileName == IF fromEnv = <<>> THEN S_permissive_open ELSE fromEnv
        profile == ReadProfile(profileName)
        envv == Append(Environ(block), ProfileMarker)
        c1 == <<CallV("ReadFile", IF profile.ok THEN "ok" ELSE "fail", profileName)>>
        c2 == c1 \o <<Call("CreateTemp", w.createTemp)>>
        c3 == c2 \o <<Call("Write", w.write)>>
        c4 == c3 \o <<Call("Close", w.close)>>
        c5 == c4 \o <<CallV("Getwd", w.getwd, IF w.getwd = "ok" THEN w.cwd ELSE <<>>)>>
        c6 == c5 \o <<Call("UserHomeDir", w.home)>>
        c7 == c6 \o <<Call("UserCacheDir", w.cache)>>
    IN  IF ~profile.ok THEN Returned(ErrMissingProfile, c1, "none")
        ELSE IF w.createTemp = "fail" THEN Returned(ErrCreateTemp, c2, "none")
        ELSE Deferred(
            IF w.write = "fail" THEN Returned(ErrWriteTemp, c3, "exists")
            ELSE IF w.close = "fail"
            THEN Launch("returned", ErrCloseTemp, c4, <<>>, <<>>, "exists", profile.data)
            ELSE IF w.getwd = "fail"
            THEN Launch("returned", ErrGetwd, c5, <<>>, <<>>, "exists", profile.data)
            ELSE IF w.home = "fail"
            THEN Launch("returned", ErrHomeDir, c6, <<>>, <<>>, "exists", profile.data)
            ELSE IF w.cache = "fail"
            THEN Launch("returned", ErrCacheDir, c7, <<>>, <<>>, "exists", profile.data)
            ELSE runCommandWithEnv(S_sandbox_exec, envv,
                                   ProfileArgs(S_tmpfile, w.cwd, argv0, args),
                                   c7, "exists", profile.data, w))

Start(cfg, args, argv0, block, w) ==
    IF cfg.isNil THEN Returned(NoErr, <<>>, "none")
    ELSE IF cfg.Command = S_docker \/ cfg.Command = S_podman
    THEN startContainer(cfg, args, argv0, block, w)
    ELSE IF cfg.Command = S_sandbox_exec
    THEN startSandboxExec(cfg, args, argv0, block, w)
    ELSE Returned(ErrUnknownCommand, <<>>, "none")

WorldsFor(cfg) ==
    IF cfg.isNil THEN {NoWorld}
    ELSE IF cfg.Command = S_sandbox_exec THEN ProfileWorlds
    ELSE ContainerWorlds

-----------------------------------------------------------------------------
(* The programs the process image is replaced by *)

DockerValueFlags == {S_volume, S_workdir, S_env}
DockerBoolFlags == {S_i, S_rm, S_init, S_t}

\* position of the image in "docker run [options] image command...", from i
RECURSIVE DockerImageIndex(_, _)
DockerImageIndex(argv, i) ==
    IF i > Len(argv) THEN i
    ELSE IF argv[i] \in DockerValueFlags THEN DockerImageIndex(argv, i + 2)
    ELSE IF argv[i] \in DockerBoolFlags THEN DockerImageIndex(argv, i + 1)
    ELSE i

\* the --env options of "docker run", in order
RECURSIVE DockerEnv(_, _)
DockerEnv(argv, i) ==
    IF i > Len(argv) THEN <<>>
    ELSE IF argv[i] = S_env /\ i < Len(argv)
    THEN <<argv[i + 1]>> \o DockerEnv(argv, i + 2)
    ELSE IF argv[i] \in DockerValueFlags THEN DockerEnv(argv, i + 2)
    ELSE IF argv[i] \in DockerBoolFlags THEN DockerEnv(argv, i + 1)
    ELSE <<>>

\* position of the command in "sandbox-exec [-f file] [-D k=v]... command..."
RECURSIVE SandboxExecCommandIndex(_, _)
SandboxExecCommandIndex(argv, i) ==
    IF i > Len(argv) THEN i
    ELSE IF argv[i] = S_f \/ argv[i] = S_D THEN SandboxExecCommandIndex(argv, i + 2)
    ELSE i

\* the process the replacing program starts: its environment and its os.Args
Relaunched(l) ==
    IF l.argv[1] = S_sandbox_exec
    THEN [env |-> l.execEnv,
          args |-> SubSeq(l.argv, SandboxExecCommandIndex(l.argv, 2), Len(l.argv))]
    ELSE [env |-> DockerEnv(l.argv, 3),
          args |-> SubSeq(l.argv, DockerImageIndex(l.argv, 3) + 1, Len(l.argv))]

-----------------------------------------------------------------------------
(* Inputs *)

\* an environment block: each key is unset or set to one of a few values
EnvEntry(key, values) == {<<>>} \cup {<<Sprintf_KeyEq(key, v)>> : v \in values}

MarkerValues == {<<>>, S_docker}
OverrideValues == {<<>>, S_true, S_FALSE, S_podman, S_lxc}
ImageEnvValues == {S_img_env}

EnvBlocks ==
    {a \o b \o c : a \in EnvEntry(S_SANDBOX, MarkerValues),
                   b \in EnvEntry(S_GEMINI_SANDBOX, OverrideValues),
                   c \in EnvEntry(S_GEMINI_SANDBOX_IMAGE, ImageEnvValues)}

OptionStrings ==
    {<<>>, S_1, S_0, S_true, S_false, S_True, S_blank,
     S_docker, S_podman, S_sandbox_exec, S_Docker_padded, S_lxc}

Options ==
    {NilOption, OtherOption, BoolOption(TRUE), BoolOption(FALSE)}
        \cup {StringOption(s) : s \in OptionStrings}

ImageOptions == {<<>>, S_img_flag}
Platforms == {S_linux, S_darwin}
KnownBackends == {S_docker, S_podman, S_sandbox_exec}
ProbeNames == KnownBackends \cup {S_lxc}

NotCalled == [called |-> FALSE]
Idle == [state |-> "idle"]

\* a flag as cobra parsed it: whether it was given, and its value
FlagUnset(default) == [changed |-> FALSE, value |-> default]
FlagSet(value) == [changed |-> TRUE, value |-> value]

\* what config.Load returned: nil, settings without a tools section, or
\* settings whose tools section holds the sandbox option and image
NilSettings ==
    [isNil |-> TRUE, toolsNil |-> TRUE, Sandbox |-> NilOption, SandboxImage |-> <<>>]
NoToolsSettings ==
    [isNil |-> FALSE, toolsNil |-> TRUE, Sandbox |-> NilOption, SandboxImage |-> <<>>]
Settings(sandbox, image) ==
    [isNil |-> FALSE, toolsNil |-> FALSE, Sandbox |-> sandbox, SandboxImage |-> image]

Cli(sandboxFlag, imageFlag, settings) ==
    [sandbox |-> sandboxFlag, sandboxImage |-> imageFlag, cfg |-> settings]
NoCli == Cli(FlagUnset(FALSE), FlagUnset(<<>>), NilSettings)

\* the runner before it is called
NoRun == [pc |-> "idle"]

-----------------------------------------------------------------------------
(* The package called directly, as its tests call it: the inputs are set   *)
(* up, then getSandboxCommand and LoadConfig are applied to them.          *)

InitCall ==
    /\ env \in EnvBlocks
    /\ sandboxOption \in Options
    /\ sandboxImageOption \in ImageOptions
    /\ runtimeGOOS \in Platforms
    /\ present \in SUBSET ProbeNames
    /\ pc = "call"
    /\ cmdRes = NotCalled
    /\ cfgRes = NotCalled
    /\ launch = Idle
    /\ hops = 0
    /\ osArgs = <<S_gemini>>
    /\ cli = NoCli
    /\ run = NoRun

CallGetSandboxCommand ==
    /\ pc = "call"
    /\ cmdRes' = [called |-> TRUE] @@ getSandboxCommand(sandboxOption, env, runtimeGOOS)
    /\ UNCHANGED <<env, sandboxOption, sandboxImageOption, runtimeGOOS, present,
                   pc, cfgRes, launch, hops, osArgs, cli, run>>

CallLoadConfig ==
    /\ pc = "call"
    /\ cfgRes' = [called |-> TRUE]
                    @@ LoadConfig(sandboxOption, sandboxImageOption, env, runtimeGOOS)
    /\ UNCHANGED <<env, sandboxOption, sandboxImageOption, runtimeGOOS, present,
                   pc, cmdRes, launch, hops, osArgs, cli, run>>

NextCall == CallGetSandboxCommand \/ CallLoadConfig

SpecCall == InitCall /\ [][NextCall]_vars

-----------------------------------------------------------------------------
(* The process from startup: the root command's PersistentPreRunE, then    *)
(* either RunE, the exit of the process, or the relaunched process.        *)

MaxHops == 2
MaxArgs == 2

StartMarkerValues == {<<>>, S_docker}
StartOverrideValues == {S_sandbox_exec}
ProfileValues == {S_restrictive_closed, S_non_existent_profile}

StartEnvBlocks ==
    {a \o b \o c : a \in EnvEntry(S_SANDBOX, StartMarkerValues),
                   b \in EnvEntry(S_GEMINI_SANDBOX, StartOverrideValues),
                   c \in EnvEntry(S_SEATBELT_PROFILE, ProfileValues)}

\* the flags and settings the process is started with
StartClis ==
    {Cli(FlagUnset(FALSE), FlagUnset(<<>>), NilSettings),
     Cli(FlagSet(TRUE), FlagUnset(<<>>), NilSettings),
     Cli(FlagSet(FALSE), FlagUnset(<<>>), Settings(BoolOption(TRUE), <<>>)),
     Cli(FlagUnset(FALSE), FlagUnset(<<>>), Settings(StringOption(S_podman), <<>>))}

\* the command lines the process is started with: the prefixes of ArgLine
ArgLine == <<S_dash_p, S_hi, S_dash_s, S_dash_p>>
ArgVectors == {SubSeq(ArgLine, 1, n) : n \in 0..MaxArgs}

Init ==
    /\ env \in StartEnvBlocks
    /\ cli \in StartClis
    /\ run = NoRun
    /\ sandboxOption = NilOption
    /\ sandboxImageOption = <<>>
    /\ runtimeGOOS \in Platforms
    /\ present \in SUBSET KnownBackends
    /\ pc = "PersistentPreRunE"
    /\ cmdRes = NotCalled
    /\ cfgRes = NotCalled
    /\ launch = Idle
    /\ hops = 0
    /\ osArgs \in {<<S_gemini>> \o a : a \in ArgVectors}

SelectSandboxOption_FlagOnlyWhenTrue(c) ==
    IF c.sandbox.changed /\ c.sandbox.value THEN BoolOption(TRUE)
    ELSE IF ~c.cfg.isNil /\ ~c.cfg.toolsNil /\ c.cfg.Sandbox # NilOption
    THEN c.cfg.Sandbox
    ELSE NilOption

\* the sandbox option PersistentPreRunE hands to LoadConfig
SelectSandboxOption(c) ==
    IF c.sandbox.changed THEN BoolOption(c.sandbox.value)
    ELSE IF ~c.cfg.isNil /\ ~c.cfg.toolsNil /\ c.cfg.Sandbox # NilOption
    THEN c.cfg.Sandbox
    ELSE NilOption

\* the image override PersistentPreRunE hands to LoadConfig
SelectSandboxImageOption(c) ==
    IF c.sandboxImage.changed THEN c.sandboxImage.value
    ELSE IF ~c.cfg.isNil /\ ~c.cfg.toolsNil /\ c.cfg.SandboxImage # <<>>
    THEN c.cfg.SandboxImage
    ELSE <<>>

\* mutant: a startup error is dropped and the command runs unsandboxed
ReturnedFromPreRun_ErrorDropped(err, otherwise) ==
    IF err # NoErr THEN "RunE" ELSE otherwise

\* an error returned by PersistentPreRunE makes Execute print it and exit
\* with status 1 without running RunE
ReturnedFromPreRun(err, otherwise) ==
    IF err # NoErr THEN "exit1" ELSE otherwise

\* PersistentPreRunE, with LoadConfig, Start and the launcher it calls
PersistentPreRunE ==
    /\ pc = "PersistentPreRunE"
    /\ IF IsInsideSandbox(env)
       THEN /\ pc' = "RunE"
            /\ UNCHANGED <<env, cfgRes, launch, hops, osArgs,
                           sandboxOption, sandboxImageOption>>
       ELSE \E r \in {LoadConfig(SelectSandboxOption(cli), SelectSandboxImageOption(cli),
                                 env, runtimeGOOS)} :
            /\ sandboxOption' = SelectSandboxOption(cli)
            /\ sandboxImageOption' = SelectSandboxImageOption(cli)
            /\ cfgRes' = [called |-> TRUE] @@ r
            /\ IF r.err # NoErr
               THEN /\ pc' = ReturnedFromPreRun(r.err, "RunE")
                    /\ UNCHANGED <<env, launch, hops, osArgs>>
               ELSE IF r.cfg.isNil
               THEN /\ pc' = "RunE"
                    /\ UNCHANGED <<env, launch, hops, osArgs>>
               ELSE \E l \in {Start(r.cfg, Tail(osArgs), osArgs[1], env, w) :
                                    w \in WorldsFor(r.cfg)} :
                        /\ launch' = l
                        /\ IF l.state = "replaced"
                           THEN \E child \in {Relaunched(l)} :
                                /\ hops < MaxHops
                                /\ hops' = hops + 1
                                /\ env' = child.env
                                /\ osArgs' = child.args
                                /\ pc' = "PersistentPreRunE"
                           ELSE /\ pc' = IF l.state = "panic" THEN "exit2"
                                      ELSE ReturnedFromPreRun(l.err, "exit0")
                                /\ UNCHANGED <<env, hops, osArgs>>
    /\ UNCHANGED <<runtimeGOOS, present, cmdRes, cli, run>>

\* RunE: the prompt and tool loop of the process, which ends with a status
RunE ==
    /\ pc = "RunE"
    /\ pc' \in {"exit0", "exit1"}
    /\ UNCHANGED <<env, sandboxOption, sandboxImageOption, runtimeGOOS, present,
                   cmdRes, cfgRes, launch, hops, osArgs, cli, run>>

Next == PersistentPreRunE \/ RunE

Spec == Init /\ [][Next]_vars

(***************************************************************************)
(* The startup over the flags and the settings file                         *)
(***************************************************************************)

FlagOverrideValues == {<<>>, S_podman}

FlagEnvBlocks == EnvEntry(S_GEMINI_SANDBOX, FlagOverrideValues)

\* tools.sandbox and tools.sandboxImage of the settings file
ConfiguredSandboxes ==
    {NilOption, BoolOption(TRUE), BoolOption(FALSE), StringOption(S_podman), OtherOption}
ConfiguredImages == {<<>>, S_img_cfg}

FlagSettings ==
    {NilSettings, NoToolsSettings}
        \cup {Settings(s, i) : s \in ConfiguredSandboxes, i \in ConfiguredImages}

FlagClis ==
    {Cli(s, i, c) : s \in {FlagUnset(FALSE), FlagSet(TRUE), FlagSet(FALSE)},
                    i \in {FlagUnset(<<>>), FlagSet(S_img_flag), FlagSet(<<>>)},
                    c \in FlagSettings}

InitFlags ==
    /\ env \in FlagEnvBlocks
    /\ cli \in FlagClis
    /\ run = NoRun
    /\ sandboxOption = NilOption
    /\ sandboxImageOption = <<>>
    /\ runtimeGOOS = S_linux
    /\ present = {S_docker, S_podman}
    /\ pc = "PersistentPreRunE"
    /\ cmdRes = NotCalled
    /\ cfgRes = NotCalled
    /\ launch = Idle
    /\ hops = 0
    /\ osArgs = <<S_gemini>>

SpecFlags == InitFlags /\ [][Next]_vars

(***************************************************************************)
(* Start called directly with a launch configuration                        *)
(***************************************************************************)

StartConfigs ==
    {NilConfig, Config(S_docker, DefaultImage), Config(S_podman, S_img_flag),
     Config(S_sandbox_exec, DefaultImage), Config(S_lxc, S_img_flag)}

LaunchProfileValues == {<<>>, S_restrictive_closed, S_non_existent_profile}

LaunchEnvBlocks ==
    {a \o b : a \in EnvEntry(S_SANDBOX, {<<>>}),
              b \in EnvEntry(S_SEATBELT_PROFILE, LaunchProfileValues)}

InitStart ==
    /\ env \in LaunchEnvBlocks
    /\ sandboxOption = NilOption
    /\ sandboxImageOption = <<>>
    /\ runtimeGOOS = S_darwin
    /\ present = KnownBackends
    /\ pc = "Start"
    /\ cmdRes = NotCalled
    /\ cfgRes \in {[called |-> TRUE, cfg |-> c, err |-> NoErr] : c \in StartConfigs}
    /\ launch = Idle
    /\ hops = 0
    /\ osArgs \in {<<S_gemini>> \o a : a \in ArgVectors}
    /\ cli = NoCli
    /\ run = NoRun

\* Start(config, args), called as the root command calls it
CallStart ==
    /\ pc = "Start"
    /\ \E w \in WorldsFor(cfgRes.cfg) :
           launch' = Start(cfgRes.cfg, Tail(osArgs), osArgs[1], env, w)
    /\ pc' = launch'.state
    /\ UNCHANGED <<env, sandboxOption, sandboxImageOption, runtimeGOOS, present,
                   cmdRes, cfgRes, hops, osArgs, cli, run>>

NextStart == CallStart

SpecStart == InitStart /\ [][NextStart]_vars

(***************************************************************************)
(* The non-interactive runner: noninteractive.Run                           *)
(***************************************************************************)

ErrMaxTurns == "max turns exceeded"
ErrIterator == "iterator error"
ErrEncodeJSON == "failed to encode JSON"

\* the largest MaxSessionTurns the settings are given
MaxSessionTurnsMax == 2

\* maxTurns := 10
DefaultMaxTurns == 10

\* genai.Part values: the text of a Text and the arguments of a call are left
\* out, the name tells the calls apart
Text == [kind |-> "Text", Name |-> "hello"]
FunctionCall(name) == [kind |-> "FunctionCall", Name |-> name]
FunctionResponse(name) == [kind |-> "FunctionResponse", Name |-> name]
Prompt == [kind |-> "Text", Name |-> "prompt"]

\* config.Settings as Run reads it: the Model section may be missing
RunSettings ==
    {[modelNil |-> TRUE, MaxSessionTurns |-> 0]}
        \cup {[modelNil |-> FALSE, MaxSessionTurns |-> n] : n \in -1..MaxSessionTurnsMax}

OutputFormats == {"text", "json"}

\* what one call of chat.SendMessageStream answers: the parts iter.Next
\* delivers, then iterator.Done or an error
StreamParts ==
    {<<>>, <<Text>>, <<FunctionCall("read_file")>>,
     <<FunctionCall("read_file"), FunctionCall("list_directory")>>,
     <<FunctionCall("list_directory"), Text, FunctionCall("read_file")>>}
Streams == [parts : StreamParts, end : {"Done", "error"}, encode : {NoErr, ErrEncodeJSON}]

\* maxTurns after the settings are read
maxTurnsOf(cfg) ==
    IF ~cfg.modelNil /\ cfg.MaxSessionTurns > 0 THEN cfg.MaxSessionTurns
    ELSE DefaultMaxTurns

MaxTurnsExceeded_OneEarly(maxTurns, turnCount) == maxTurns >= 0 /\ turnCount >= maxTurns

\* if maxTurns >= 0 && turnCount > maxTurns
MaxTurnsExceeded(maxTurns, turnCount) == maxTurns >= 0 /\ turnCount > maxTurns

\* the function calls of a stream, in the order they were appended
RECURSIVE collectedFunctionCalls(_)
collectedFunctionCalls(parts) ==
    IF parts = <<>> THEN <<>>
    ELSE (IF Head(parts).kind = "FunctionCall" THEN <<Head(parts)>> ELSE <<>>)
             \o collectedFunctionCalls(Tail(parts))

\* the number of Text parts of a stream
RECURSIVE TextCount(_)
TextCount(parts) ==
    IF parts = <<>> THEN 0
    ELSE (IF Head(parts).kind = "Text" THEN 1 ELSE 0) + TextCount(Tail(parts))

\* tools.ExecuteToolCall
ExecuteToolCall(fc) == FunctionResponse(fc.Name)

toolResponseParts_LastFirst(calls) ==
    [i \in 1..Len(calls) |-> ExecuteToolCall(calls[Len(calls) + 1 - i])]

\* for _, fc := range collectedFunctionCalls { append(..., ExecuteToolCall(&fc)) }
toolResponseParts(calls) == [i \in 1..Len(calls) |-> ExecuteToolCall(calls[i])]

NoStream == [parts |-> <<>>, end |-> "none", encode |-> NoErr]

\* Run up to the loop: its locals, and what it did in its last turn
RunEntered(cfg, format) ==
    [pc |-> "loop", cfg |-> cfg, outputFormat |-> format, maxTurns |-> maxTurnsOf(cfg),
     turnCount |-> 0, currentUserParts |-> <<Prompt>>, requests |-> 0,
     sent |-> <<>>, stream |-> NoStream, executed |-> <<>>,
     callTurns |-> 0, responseText |-> 0, printed |-> 0, result |-> "none"]

RunReturned(r, result) == [r EXCEPT !.pc = "done", !.result = result]

\* one iteration of the loop of Run, answered by the stream s
RunTurn(r, s) ==
    LET turnCount == r.turnCount + 1
        calls     == collectedFunctionCalls(s.parts)
        texts     == TextCount(s.parts)
        asked     == [r EXCEPT !.turnCount = turnCount,
                               !.requests = r.requests + 1,
                               !.sent = r.currentUserParts,
                               !.stream = [s EXCEPT !.encode = NoErr],
                               !.executed = <<>>,
                               !.responseText =
                                   IF r.outputFormat = "json" THEN @ + texts ELSE @,
                               !.printed =
                                   IF r.outputFormat = "json" THEN @ ELSE @ + texts]
    IN  IF MaxTurnsExceeded(r.maxTurns, turnCount)
        THEN RunReturned([r EXCEPT !.turnCount = turnCount, !.stream = NoStream,
                                   !.executed = <<>>], ErrMaxTurns)
        ELSE IF s.end = "error" THEN RunReturned(asked, ErrIterator)
        ELSE IF Len(calls) > 0
        THEN [asked EXCEPT !.executed = calls,
                           !.currentUserParts = toolResponseParts(calls),
                           !.callTurns = @ + 1]
        ELSE IF r.outputFormat = "json"
        THEN RunReturned([asked EXCEPT !.stream = s, !.printed = @ + 1], s.encode)
        ELSE RunReturned([asked EXCEPT !.printed = @ + 1], NoErr)

InitRun ==
    /\ env = <<>>
    /\ sandboxOption = NilOption
    /\ sandboxImageOption = <<>>
    /\ runtimeGOOS = S_linux
    /\ present = {}
    /\ pc = "Run"
    /\ cmdRes = NotCalled
    /\ cfgRes = NotCalled
    /\ launch = Idle
    /\ hops = 0
    /\ osArgs = <<S_gemini, S_dash_p, S_hi>>
    /\ cli = NoCli
    /\ run = NoRun

\* Run(ctx, cfg, model, prompt, outputFormat) is called
Run ==
    /\ pc = "Run"
    /\ run.pc = "idle"
    /\ \E cfg \in RunSettings, format \in OutputFormats :
           run' = RunEntered(cfg, format)
    /\ UNCHANGED <<env, sandboxOption, sandboxImageOption, runtimeGOOS, present,
                   pc, cmdRes, cfgRes, launch, hops, osArgs, cli>>

\* the loop of Run takes one turn
Turn ==
    /\ pc = "Run"
    /\ run.pc = "loop"
    /\ \E r \in {RunTurn(run, s) : s \in Streams} : run' = r
    /\ UNCHANGED <<env, sandboxOption, sandboxImageOption, runtimeGOOS, present,
                   pc, cmdRes, cfgRes, launch, hops, osArgs, cli>>

NextRun == Run \/ Turn

SpecRun == InitRun /\ [][NextRun]_vars

\* every turn the loop can take is taken
FairSpecRun == SpecRun /\ WF_vars(NextRun)

-----------------------------------------------------------------------------
(* Properties of policy resolution and of the config builder *)

Marker == Getenv(env, S_SANDBOX)
Override == Getenv(env, S_GEMINI_SANDBOX)
ImageEnv == Getenv(env, S_GEMINI_SANDBOX_IMAGE)
Outcome(r) == <<r.cmd, r.err>>

\* the environment block without the entries of a key (os.Unsetenv)
Unsetenv(block, key) ==
    SelectSeq(block, LAMBDA e : ~(EqIndex(e) > 0 /\ EntryKey(e) = key))

\* the string the resolver reads: GEMINI_SANDBOX when non-empty, else a string option
RequestedString ==
    IF Override # <<>> THEN Override
    ELSE IF sandboxOption.kind = "string" THEN sandboxOption.s ELSE <<>>
HasRequestedString == Override # <<>> \/ sandboxOption.kind = "string"
RequestedName == ToLower(TrimSpace(RequestedString))
IsExplicitName == HasRequestedString /\ RequestedName \notin {S_1, S_true, S_0, S_false, <<>>}
ContainerBackends == {S_docker, S_podman}

GenericEnable ==
    \/ Override = <<>> /\ sandboxOption = BoolOption(TRUE)
    \/ HasRequestedString /\ RequestedName \in {S_1, S_true}

\* the backend the fallback order names, empty when it names none
FallbackChoice ==
    IF runtimeGOOS = S_darwin /\ S_sandbox_exec \in present THEN S_sandbox_exec
    ELSE IF S_docker \in present THEN S_docker
    ELSE IF S_podman \in present THEN S_podman
    ELSE <<>>

\* C1: whenever the marker SANDBOX is non-empty, getSandboxCommand returns the
\* empty backend with no error and LoadConfig returns no config with no error,
\* for every option, GEMINI_SANDBOX value, platform and probe result.
C1_GuardYieldsNoSandbox ==
    Marker # <<>> =>
        /\ cmdRes.called => cmdRes.cmd = <<>> /\ cmdRes.err = NoErr
        /\ cfgRes.called => cfgRes.cfg = NilConfig /\ cfgRes.err = NoErr

C1_Witness ==
    /\ Marker = S_docker /\ Override = S_podman /\ S_podman \in present
    /\ sandboxOption = BoolOption(TRUE)
    /\ cmdRes.called /\ cmdRes.cmd = <<>>
    /\ cfgRes.called /\ cfgRes.cfg = NilConfig

\* C3: with a non-empty GEMINI_SANDBOX and the guard false, the result is the
\* same for every option value and equals the result of resolving the
\* GEMINI_SANDBOX value itself as the option, with the same platform and probe.
C3_OverrideReplacesOption ==
    (cmdRes.called /\ Marker = <<>> /\ Override # <<>>) =>
        /\ \A o \in Options :
              Outcome(getSandboxCommand(o, env, runtimeGOOS)) = Outcome(cmdRes)
        /\ Outcome(cmdRes) =
              Outcome(getSandboxCommand(StringOption(Override),
                                        Unsetenv(env, S_GEMINI_SANDBOX), runtimeGOOS))

C3_Witness ==
    /\ cmdRes.called /\ Marker = <<>> /\ Override = S_podman
    /\ sandboxOption = StringOption(S_docker)
    /\ present = {S_docker, S_podman}
    /\ cmdRes.cmd = S_podman /\ cmdRes.err = NoErr

\* C4: an explicit backend name (trimmed and lower-cased, as the resolver reads
\* it) that is not docker, podman or sandbox-exec makes getSandboxCommand fail
\* with the invalid-backend error and an empty backend, for every probe result
\* and platform, and the probe is not consulted.
C4_UnknownNameIsInvalid ==
    (cmdRes.called /\ Marker = <<>> /\ IsExplicitName /\ RequestedName \notin KnownBackends) =>
        /\ cmdRes.cmd = <<>>
        /\ cmdRes.err = ErrInvalidCommand
        /\ cmdRes.probed = <<>>

C4_Witness ==
    /\ cmdRes.called /\ Marker = <<>> /\ RequestedName = S_lxc
    /\ S_lxc \in present
    /\ cmdRes.err = ErrInvalidCommand

\* C5: an explicit valid backend name whose executable the probe reports
\* missing makes getSandboxCommand fail with the missing-executable error: no
\* other backend is returned, and "no sandbox" is never returned without error.
C5_MissingExecutableFails ==
    (cmdRes.called /\ Marker = <<>> /\ IsExplicitName
        /\ RequestedName \in KnownBackends /\ RequestedName \notin present) =>
        /\ cmdRes.cmd = <<>>
        /\ cmdRes.err = ErrMissingCommand

C5_Witness ==
    /\ cmdRes.called /\ Marker = <<>> /\ RequestedName = S_podman
    /\ present = {S_docker, S_sandbox_exec} /\ runtimeGOOS = S_darwin
    /\ cmdRes.err = ErrMissingCommand

\* C6: a generic enable follows the fallback order: sandbox-exec on darwin when
\* it exists, whatever docker and podman report; otherwise docker if it exists,
\* else podman if it exists.
C6_FallbackOrder ==
    (cmdRes.called /\ Marker = <<>> /\ GenericEnable /\ FallbackChoice # <<>>) =>
        /\ cmdRes.cmd = FallbackChoice
        /\ cmdRes.err = NoErr

C6_Witness ==
    /\ cmdRes.called /\ Marker = <<>> /\ GenericEnable
    /\ runtimeGOOS = S_linux /\ present = {S_sandbox_exec, S_podman}
    /\ cmdRes.cmd = S_podman

\* C7: a generic enable for which the fallback order finds no backend makes
\* getSandboxCommand return the remediation error, never "no sandbox" without
\* an error.
C7_NoBackendIsAnError ==
    (cmdRes.called /\ Marker = <<>> /\ GenericEnable /\ FallbackChoice = <<>>) =>
        /\ cmdRes.cmd = <<>>
        /\ cmdRes.err = ErrUndetermined

C7_Witness ==
    /\ cmdRes.called /\ Marker = <<>> /\ GenericEnable
    /\ runtimeGOOS = S_linux /\ present = {S_sandbox_exec}
    /\ cmdRes.err = ErrUndetermined

\* C8: with GEMINI_SANDBOX unset, a disabled option (absent, false, "false",
\* "0" or "") resolves to "no sandbox" with no error for every platform and
\* probe result, and LoadConfig returns no config with no error.
DisabledOptions ==
    {NilOption, BoolOption(FALSE), StringOption(S_false), StringOption(S_0),
     StringOption(<<>>)}

C8_DisabledYieldsNoSandbox ==
    (Override = <<>> /\ sandboxOption \in DisabledOptions) =>
        /\ cmdRes.called => cmdRes.cmd = <<>> /\ cmdRes.err = NoErr
        /\ cfgRes.called => cfgRes.cfg = NilConfig /\ cfgRes.err = NoErr

C8_Witness ==
    /\ Override = <<>> /\ Marker = <<>> /\ sandboxOption = StringOption(S_0)
    /\ present = ProbeNames /\ runtimeGOOS = S_darwin
    /\ cmdRes.called /\ cmdRes.cmd = <<>>
    /\ cfgRes.called /\ cfgRes.cfg = NilConfig /\ cfgRes.err = NoErr

\* C9: whenever LoadConfig resolves a backend, the image of the config is the
\* override if non-empty, else GEMINI_SANDBOX_IMAGE if non-empty, else the
\* built-in default, whichever backend was resolved and however.
C9_ImagePrecedence ==
    (cfgRes.called /\ ~cfgRes.cfg.isNil) =>
        cfgRes.cfg.Image =
            IF sandboxImageOption # <<>> THEN sandboxImageOption
            ELSE IF ImageEnv # <<>> THEN ImageEnv
            ELSE DefaultImage

C9_Witness ==
    /\ cfgRes.called /\ ~cfgRes.cfg.isNil
    /\ sandboxImageOption = S_img_flag /\ ImageEnv = S_img_env
    /\ cfgRes.cfg.Image = S_img_flag

\* C2: each launcher hands the relaunched process a non-empty marker SANDBOX
\* naming the backend, so that the relaunched process is inside the sandbox
\* and resolves to "no sandbox"; a sandbox is entered at most once.
C2_MarkerAfterRelaunch ==
    hops >= 1 =>
        /\ Getenv(env, S_SANDBOX) = launch.argv[1]
        /\ IsInsideSandbox(env)
        /\ hops = 1

\* C10: LoadConfig never returns a config with a container backend (docker or
\* podman) and an empty image; a container backend without a resolved image
\* yields the missing-image error and no config.
C10_ContainerHasImage ==
    cfgRes.called =>
        /\ (~cfgRes.cfg.isNil /\ cfgRes.cfg.Command \in ContainerBackends)
              => cfgRes.cfg.Image # <<>>
        /\ cfgRes.err = ErrNoImage => cfgRes.cfg = NilConfig
        /\ (cmdRes.called /\ cmdRes.cmd \in ContainerBackends
              /\ ResolveImage(sandboxImageOption, env) = <<>>)
              => cfgRes.err = ErrNoImage

C10_Witness ==
    /\ cfgRes.called /\ ~cfgRes.cfg.isNil
    /\ cfgRes.cfg.Command = S_docker
    /\ sandboxImageOption = <<>> /\ ImageEnv = <<>>
    /\ cfgRes.cfg.Image = DefaultImage

\* C11 as stated: every config LoadConfig returns with backend sandbox-exec has
\* an empty image, and every one with docker or podman has a non-empty image.
C11_ProfileConfigHasNoImage ==
    (cfgRes.called /\ ~cfgRes.cfg.isNil) =>
        /\ cfgRes.cfg.Command = S_sandbox_exec => cfgRes.cfg.Image = <<>>
        /\ cfgRes.cfg.Command \in ContainerBackends => cfgRes.cfg.Image # <<>>

\* C11: every config LoadConfig returns has a non-empty image, whatever its
\* backend; a config with backend sandbox-exec carries the image option, else
\* GEMINI_SANDBOX_IMAGE, else the built-in default, like a container config.
C11_EveryConfigHasImage ==
    (cfgRes.called /\ ~cfgRes.cfg.isNil) =>
        /\ cfgRes.cfg.Command \in KnownBackends
        /\ cfgRes.cfg.Image # <<>>
        /\ (cfgRes.cfg.Command = S_sandbox_exec /\ sandboxImageOption = <<>>
              /\ ImageEnv = <<>>) => cfgRes.cfg.Image = DefaultImage

C11_Witness ==
    /\ cfgRes.called /\ ~cfgRes.cfg.isNil
    /\ cfgRes.cfg.Command = S_sandbox_exec
    /\ sandboxImageOption = <<>> /\ ImageEnv = <<>>
    /\ cfgRes.cfg.Image = DefaultImage

\* the profile startSandboxExec is asked for, and whether a launch took place
RequestedProfile ==
    IF Getenv(env, S_SEATBELT_PROFILE) = <<>>
    THEN S_permissive_open
    ELSE Getenv(env, S_SEATBELT_PROFILE)
Launched == launch.state # "idle"
ProfileLaunch == Launched /\ ~cfgRes.cfg.isNil /\ cfgRes.cfg.Command = S_sandbox_exec
ContainerLaunch == Launched /\ ~cfgRes.cfg.isNil /\ cfgRes.cfg.Command \in ContainerBackends
Ops == {launch.calls[i].op : i \in 1..Len(launch.calls)}

\* C12: when the requested profile is not a bundled one, startSandboxExec
\* returns the unknown-profile error before any transient file is created or
\* written and without invoking the process replacement primitive.
C12_UnknownProfileFailsEarly ==
    (ProfileLaunch /\ RequestedProfile \notin BundledProfiles) =>
        /\ launch.state = "returned"
        /\ launch.err = ErrMissingProfile
        /\ launch.tmp = "none"
        /\ launch.argv = <<>>
        /\ Ops \cap {"CreateTemp", "Write", "Close", "LookPath", "Exec"} = {}

C12_Witness ==
    /\ ProfileLaunch
    /\ RequestedProfile = S_non_existent_profile
    /\ launch.err = ErrMissingProfile
    /\ launch.calls = <<CallV("ReadFile", "fail", S_non_existent_profile)>>

\* the transient profile file was created during the launch
TransientCreated ==
    \E i \in 1..Len(launch.calls) :
        launch.calls[i].op = "CreateTemp" /\ launch.calls[i].res = "ok"

C13_WitnessHandoff ==
    /\ ProfileLaunch /\ launch.state = "returned" /\ TransientCreated
    /\ launch.err = ErrExec
    /\ launch.tmp = "removed"

\* the working directory os.Getwd answered during the launch
WorkDirSeen ==
    LET i == CHOOSE i \in 1..Len(launch.calls) : launch.calls[i].op = "Getwd"
    IN  launch.calls[i].val
HandoffAttempted == Launched /\ launch.argv # <<>>

\* C14: with SEATBELT_PROFILE unset (or empty) startSandboxExec reads the
\* profile permissive-open, and the invocation it hands off is sandbox-exec
\* with, in this order: -f and the transient file; -D TARGET_DIR, TMP_DIR,
\* HOME_DIR and CACHE_DIR; exactly five -D INCLUDE_DIR_i=/dev/null for i = 0..4;
\* then the command to run in the sandbox.
C14_DefaultProfileInvocation ==
    (ProfileLaunch /\ Getenv(env, S_SEATBELT_PROFILE) = <<>>) =>
        /\ launch.calls[1] = CallV("ReadFile", "ok", S_permissive_open)
        /\ launch.err # ErrMissingProfile
        /\ HandoffAttempted =>
            /\ launch.content = ProfileData(S_permissive_open)
            /\ launch.argv =
                  <<S_sandbox_exec, S_f, S_tmpfile,
                    S_D, S_TARGET_DIR \o S_eq \o WorkDirSeen,
                    S_D, S_TMP_DIR \o S_eq \o S_tmpdir,
                    S_D, S_HOME_DIR \o S_eq \o S_home,
                    S_D, S_CACHE_DIR \o S_eq \o S_cache,
                    S_D, S_INCLUDE_DIR_ \o <<"0">> \o S_eq \o S_dev_null,
                    S_D, S_INCLUDE_DIR_ \o <<"1">> \o S_eq \o S_dev_null,
                    S_D, S_INCLUDE_DIR_ \o <<"2">> \o S_eq \o S_dev_null,
                    S_D, S_INCLUDE_DIR_ \o <<"3">> \o S_eq \o S_dev_null,
                    S_D, S_INCLUDE_DIR_ \o <<"4">> \o S_eq \o S_dev_null>>
                  \o osArgs

C14_Witness ==
    /\ ProfileLaunch /\ Getenv(env, S_SEATBELT_PROFILE) = <<>>
    /\ launch.state = "replaced"
    /\ Len(launch.argv) = 21 + Len(osArgs)
    /\ Len(osArgs) = 3
    /\ WorkDirSeen = S_cwd_alt

\* how often an operation was called during the launch
Count(op) == Cardinality({i \in 1..Len(launch.calls) : launch.calls[i].op = op})

\* C15: a container launch pulls the image at most once and probes for it at
\* most twice; a pull directly follows a probe that reported the image absent;
\* when the probe after the pull still reports it absent, the launch returns
\* the image-unavailable error without a second pull.
C15_PullAtMostOnce ==
    ContainerLaunch =>
        /\ Count("pull") <= 1
        /\ Count("images") <= 2
        /\ \A i \in 1..Len(launch.calls) :
              launch.calls[i].op = "pull" =>
                  i > 1 /\ launch.calls[i - 1] = Call("images", "absent")
        /\ (\E i \in 2..Len(launch.calls) : launch.calls[i] = Call("images", "absent")) =>
              /\ launch.state = "returned"
              /\ launch.err = ErrImageUnavailable
              /\ launch.calls = <<Call("images", "absent"), Call("pull", "ok"),
                                  Call("images", "absent")>>

C15_Witness ==
    /\ ContainerLaunch
    /\ launch.err = ErrImageUnavailable
    /\ Count("pull") = 1 /\ Count("images") = 2

\* the steps before the handoff, and the error the launcher returns for each
HandoffOps == {"LookPath", "Exec"}
StepFailed(i) ==
    \/ launch.calls[i].op \notin (HandoffOps \cup {"Stat", "Remove"})
          /\ launch.calls[i].res \in {"fail", "error"}
    \/ i > 1 /\ launch.calls[i] = Call("images", "absent")
StepError(i) ==
    LET c == launch.calls[i]
    IN  IF c.op = "images"
        THEN (IF c.res = "absent" THEN ErrImageUnavailable
              ELSE IF i = 1 THEN ErrImageCheck ELSE ErrImageCheckAfterPull)
        ELSE IF c.op = "pull" THEN ErrPull
        ELSE IF c.op = "ReadFile" THEN ErrMissingProfile
        ELSE IF c.op = "CreateTemp" THEN ErrCreateTemp
        ELSE IF c.op = "Write" THEN ErrWriteTemp
        ELSE IF c.op = "Close" THEN ErrCloseTemp
        ELSE IF c.op = "Getwd" THEN ErrGetwd
        ELSE IF c.op = "UserHomeDir" THEN ErrHomeDir
        ELSE ErrCacheDir

\* C16: whenever a step before the handoff fails (unknown backend in the
\* config, image probe, pull, re-probe, profile lookup, creating, writing or
\* closing the transient file, working, home or cache directory lookup), Start
\* returns the error of that step, no further step is made except the removal
\* of the transient file, and the replacement primitive is not invoked.
C16_FailureBeforeHandoffIsReturned ==
    Launched =>
        /\ (~cfgRes.cfg.isNil /\ cfgRes.cfg.Command \notin KnownBackends) =>
              launch = Returned(ErrUnknownCommand, <<>>, "none")
        /\ \A i \in 1..Len(launch.calls) :
              StepFailed(i) =>
                  /\ launch.state = "returned"
                  /\ launch.err = StepError(i)
                  /\ launch.argv = <<>>
                  /\ Ops \cap HandoffOps = {}
                  /\ \A j \in (i + 1)..Len(launch.calls) : launch.calls[j].op = "Remove"

C16_Witness ==
    /\ ContainerLaunch
    /\ launch.state = "returned"
    /\ launch.err = ErrGetwd
    /\ launch.calls[Len(launch.calls)] = Call("Getwd", "fail")

C16_WitnessUnknownBackend ==
    /\ Launched /\ cfgRes.cfg.Command = S_lxc
    /\ launch.err = ErrUnknownCommand

\* LoadConfig or Start returned an error in the process now running
LoadFailed == cfgRes.called /\ cfgRes.err # NoErr
StartFailed ==
    /\ cfgRes.called /\ cfgRes.err = NoErr /\ ~cfgRes.cfg.isNil
    /\ launch.state = "returned" /\ launch.err # NoErr

\* C17: whenever LoadConfig or Start returns an error during startup, the
\* process is at its exit with status 1: PersistentPreRunE returned the
\* error, RunE is not and will not be executed, and Execute exits non-zero.
C17_StartupErrorExits ==
    (LoadFailed \/ StartFailed) => pc = "exit1"

C17_Witness ==
    /\ StartFailed
    /\ launch.err = ErrPull
    /\ pc = "exit1"

C17_WitnessLoad ==
    /\ LoadFailed
    /\ cfgRes.err = ErrMissingCommand
    /\ pc = "exit1"

\* the last call of the launch that is not the deferred removal
LastStep ==
    LET n == Len(launch.calls)
    IN  IF launch.calls[n].op = "Remove" THEN launch.calls[n - 1] ELSE launch.calls[n]

\* C18: runCommandWithEnv returns only on failure. Whenever it returns, the
\* value is a non-nil error: the not-found error when the executable could not
\* be located, and then the replacement was not attempted, or the exec error
\* when the replacement itself failed. When the replacement succeeds control
\* does not return: nothing is done after it.
C18_HandoffReturnsOnlyOnFailure ==
    (Launched /\ "LookPath" \in Ops) =>
        /\ launch.state \in {"returned", "replaced"}
        /\ launch.state = "returned" =>
              /\ launch.err \in {ErrExecNotFound, ErrExec}
              /\ launch.err = ErrExecNotFound =>
                    LastStep = Call("LookPath", "fail") /\ "Exec" \notin Ops
              /\ launch.err = ErrExec => LastStep = Call("Exec", "fail")
        /\ launch.state = "replaced" =>
              /\ launch.err = NoErr
              /\ launch.calls[Len(launch.calls)] = Call("Exec", "ok")
        /\ Call("Exec", "ok") \in {launch.calls[i] : i \in 1..Len(launch.calls)}
              => launch.state = "replaced"

C18_Witness ==
    /\ ContainerLaunch
    /\ launch.state = "returned"
    /\ launch.err = ErrExec
    /\ LastStep = Call("Exec", "fail")

C18_WitnessReplaced ==
    /\ ProfileLaunch
    /\ launch.state = "replaced"
    /\ launch.calls[Len(launch.calls)] = Call("Exec", "ok")

\* C19: the argument vector a launcher hands off ends with os.Args[0]
\* followed by all arguments of the process in their order, unmodified, and
\* nothing after them; in the container invocation they come directly after
\* the image, in the sandbox-exec invocation directly after the last -D
\* parameter. The root command passes os.Args[1:] as the arguments.
C19_CommandLinePassedOn ==
    [][(/\ pc = "PersistentPreRunE" /\ ~IsInsideSandbox(env)
        /\ cfgRes'.err = NoErr /\ ~cfgRes'.cfg.isNil
        /\ launch'.argv # <<>>) =>
          LET a == launch'.argv
              n == Len(a)
              k == Len(osArgs)
          IN  /\ n > k + 2
              /\ SubSeq(a, n - k + 1, n) = osArgs
              /\ IF cfgRes'.cfg.Command \in ContainerBackends
                 THEN /\ a[n - k] = cfgRes'.cfg.Image
                      /\ a[n - k - 2] = S_env
                 ELSE /\ a[n - k] = S_INCLUDE_DIR_ \o <<"4">> \o S_eq \o S_dev_null
                      /\ a[n - k - 1] = S_D]_vars

C19_Witness ==
    /\ ContainerLaunch /\ hops = 0
    /\ launch.state = "returned" /\ launch.err = ErrExec
    /\ osArgs = <<S_gemini, S_dash_p, S_hi>>
    /\ SubSeq(launch.argv, Len(launch.argv) - 3, Len(launch.argv))
          = <<cfgRes.cfg.Image, S_gemini, S_dash_p, S_hi>>

C19_WitnessProfile ==
    /\ ProfileLaunch /\ hops = 1
    /\ osArgs = <<S_gemini, S_dash_p, S_hi>>
    /\ SubSeq(launch.argv, Len(launch.argv) - 2, Len(launch.argv)) = osArgs

\* what os.Stdin.Stat answered during the launch
StdinSeen ==
    LET i == CHOOSE i \in 1..Len(launch.calls) : launch.calls[i].op = "Stat"
    IN  launch.calls[i].res

\* C20: every container invocation starts with run -i --rm --init, requests a
\* pseudo-terminal with -t exactly when the standard input of the launching
\* process is a terminal, and mounts the working directory W of the launching
\* process at the same path and makes it the working directory:
\* --volume W:W --workdir W.
C20_ContainerInvocation ==
    (ContainerLaunch /\ HandoffAttempted) =>
        LET a == launch.argv
            t == IF a[6] = S_t THEN 1 ELSE 0
            W == WorkDirSeen
        IN  /\ a[1] = cfgRes.cfg.Command
            /\ SubSeq(a, 2, 5) = <<S_run, S_i, S_rm, S_init>>
            /\ (a[6] = S_t) <=> (StdinSeen = "tty")
            /\ SubSeq(a, 6 + t, 9 + t) = <<S_volume, W \o <<":">> \o W, S_workdir, W>>
            /\ W \in Dirs

\* the outcome of a generic enable: the fallback choice, or the error
GenericOutcome ==
    IF FallbackChoice # <<>> THEN <<FallbackChoice, NoErr>> ELSE <<<<>>, ErrUndetermined>>

\* the meaning of a requested string s, read as the name n
StringMeaning(s, n) ==
    /\ s \in {S_1, S_true} => Outcome(cmdRes) = GenericOutcome
    /\ s \in {S_0, S_false, <<>>} => Outcome(cmdRes) = <<<<>>, NoErr>>
    /\ s \notin {S_1, S_true, S_0, S_false, <<>>} =>
          \/ cmdRes.cmd = n /\ cmdRes.err = NoErr
          \/ cmdRes.cmd = <<>> /\ cmdRes.err \in {ErrInvalidCommand, ErrMissingCommand}

\* C21 as stated: the string as given decides; "1" or "true" is a generic
\* enable, "0", "false" or the empty string disables, and every other
\* non-empty string resolves to exactly itself or fails as invalid or missing.
C21_RawStringMeaning ==
    (cmdRes.called /\ Marker = <<>> /\ HasRequestedString) =>
        StringMeaning(RequestedString, RequestedString)

\* C21: outside a sandbox, the string option (or GEMINI_SANDBOX value) is
\* first trimmed and lower-cased; the result "1" or "true" is a generic
\* enable, "0", "false" or empty disables, and every other result is an
\* explicit backend name that resolves to exactly that normalised name or
\* fails with the invalid-backend or missing-executable error.
C21_NormalisedStringMeaning ==
    (cmdRes.called /\ Marker = <<>> /\ HasRequestedString) =>
        /\ StringMeaning(RequestedName, RequestedName)
        /\ IsExplicitName =>
              /\ cmdRes.err = NoErr <=> RequestedName \in (KnownBackends \cap present)
              /\ cmdRes.err = ErrInvalidCommand <=> RequestedName \notin KnownBackends

C21_Witness ==
    /\ cmdRes.called /\ Marker = <<>>
    /\ RequestedString = S_True /\ RequestedName = S_true
    /\ FallbackChoice = S_podman
    /\ Outcome(cmdRes) = <<S_podman, NoErr>>

C21_WitnessPadded ==
    /\ cmdRes.called /\ Marker = <<>>
    /\ RequestedString = S_Docker_padded
    /\ Outcome(cmdRes) = <<S_docker, NoErr>>

\* position of the first call of an operation during the launch, 0 when none
IndexOf(op) ==
    IF op \in Ops
    THEN CHOOSE i \in 1..Len(launch.calls) :
            /\ launch.calls[i].op = op
            /\ \A j \in 1..(i - 1) : launch.calls[j].op # op
    ELSE 0

\* C22: the profile launcher invokes the replacement primitive only after the
\* transient file was created, filled with the bytes of the requested
\* template and closed, in this order; the file named after -f is that file
\* and holds exactly the template; it is removed only after the primitive
\* returned, and never when the replacement succeeded.
C22_ProfileFileReadyAtHandoff ==
    (ProfileLaunch /\ "Exec" \in Ops) =>
        /\ launch.calls[IndexOf("ReadFile")] = CallV("ReadFile", "ok", RequestedProfile)
        /\ launch.calls[IndexOf("CreateTemp")] = Call("CreateTemp", "ok")
        /\ launch.calls[IndexOf("Write")] = Call("Write", "ok")
        /\ launch.calls[IndexOf("Close")] = Call("Close", "ok")
        /\ IndexOf("ReadFile") < IndexOf("CreateTemp")
        /\ IndexOf("CreateTemp") < IndexOf("Write")
        /\ IndexOf("Write") < IndexOf("Close")
        /\ IndexOf("Close") < IndexOf("Exec")
        /\ Count("Exec") = 1
        /\ launch.argv[2] = S_f /\ launch.argv[3] = S_tmpfile
        /\ launch.content = ProfileData(RequestedProfile)
        /\ "Remove" \in Ops => IndexOf("Exec") < IndexOf("Remove")
        /\ launch.state = "replaced" => launch.tmp = "exists" /\ "Remove" \notin Ops

C22_Witness ==
    /\ ProfileLaunch
    /\ launch.state = "replaced"
    /\ RequestedProfile = S_restrictive_closed
    /\ launch.content = ProfileData(S_restrictive_closed)
    /\ launch.tmp = "exists"

\* C23: the container launcher invokes the replacement primitive only after
\* an image probe reported the image present: the first probe, or the probe
\* that follows a successful pull. When a probe command fails or the pull
\* fails, the launch returns that error with this as its last call: no
\* further probe, no pull, no replacement.
C23_ImagePresentBeforeHandoff ==
    ContainerLaunch =>
        /\ (Ops \cap HandoffOps # {}) =>
              \/ launch.calls[1] = Call("images", "present")
              \/ /\ Len(launch.calls) >= 3
                 /\ SubSeq(launch.calls, 1, 3) =
                        <<Call("images", "absent"), Call("pull", "ok"),
                          Call("images", "present")>>
        /\ \A i \in 1..Len(launch.calls) :
              launch.calls[i] \in {Call("images", "error"), Call("pull", "fail")} =>
                  /\ i = Len(launch.calls)
                  /\ launch.state = "returned"
                  /\ launch.err = StepError(i)
                  /\ launch.argv = <<>>

C23_Witness ==
    /\ ContainerLaunch
    /\ launch.state = "replaced"
    /\ SubSeq(launch.calls, 1, 3) =
           <<Call("images", "absent"), Call("pull", "ok"), Call("images", "present")>>

C23_WitnessPullFails ==
    /\ ContainerLaunch
    /\ launch.err = ErrPull
    /\ launch.calls = <<Call("images", "absent"), Call("pull", "fail")>>

\* environment blocks with the same SANDBOX and GEMINI_SANDBOX entries as
\* block, and other variables set or unset before and behind them
SameSandboxVariables(block) ==
    LET base == Unsetenv(Unsetenv(block, S_GEMINI_SANDBOX_IMAGE), S_SEATBELT_PROFILE)
    IN  {<<Sprintf_KeyEq(S_SEATBELT_PROFILE, S_restrictive_closed)>> \o base \o y :
            y \in EnvEntry(S_GEMINI_SANDBOX_IMAGE, ImageEnvValues)}

\* C24: getSandboxCommand is a function of the option, the values of SANDBOX
\* and GEMINI_SANDBOX, the platform and the probe results: a step that calls
\* it leaves the option, the environment, the platform and the probe as they
\* were, calling it again in the state it leaves returns the same backend and
\* error, and so does a call in any environment that has the same SANDBOX and
\* GEMINI_SANDBOX values.
C24_ResolutionIsAFunctionOfItsInputs ==
    [][(~cmdRes.called /\ cmdRes'.called) =>
          /\ UNCHANGED <<sandboxOption, env, runtimeGOOS, present>>
          /\ Outcome(getSandboxCommand(sandboxOption', env', runtimeGOOS')) = Outcome(cmdRes')
          /\ \A b \in SameSandboxVariables(env') :
                Outcome(getSandboxCommand(sandboxOption', b, runtimeGOOS'))
                    = Outcome(cmdRes')]_vars

C24_Witness ==
    /\ cmdRes.called /\ cfgRes.called
    /\ Marker = <<>> /\ ImageEnv = S_img_env
    /\ sandboxOption = BoolOption(TRUE)
    /\ cmdRes.cmd = S_podman /\ cmdRes.err = NoErr

\* C25: every launch Start makes for a config ends in one of two ways: the
\* replacement primitive was invoked exactly once, or an error was returned;
\* before that it made, one after the other, at most two image probes and one
\* pull (container) or one template lookup and one transient-file creation
\* (profile).
C25_LaunchEndsInHandoffOrError ==
    (Launched /\ ~cfgRes.cfg.isNil) =>
        /\ \/ Count("Exec") = 1
           \/ launch.state = "returned" /\ launch.err # NoErr
        /\ Count("Exec") <= 1
        /\ Count("images") <= 2 /\ Count("pull") <= 1
        /\ Count("ReadFile") <= 1 /\ Count("CreateTemp") <= 1
        /\ ContainerLaunch => Ops \cap {"ReadFile", "CreateTemp"} = {}
        /\ ProfileLaunch => Ops \cap {"images", "pull"} = {}

\* the launch that ends in neither way
C25_PanicReached ==
    /\ ContainerLaunch
    /\ launch.state = "panic"
    /\ launch.calls = <<Call("images", "present"), Call("Stat", "error")>>
    /\ Count("Exec") = 0

\* the names handed to the probe by the call
Probed == {cmdRes.probed[i] : i \in 1..Len(cmdRes.probed)}

\* C27: every result of getSandboxCommand has an empty backend or one of
\* docker, podman, sandbox-exec; a non-empty backend was handed to the probe
\* and reported present; and a result with an error has an empty backend.
C27_ResultIsWellFormed ==
    cmdRes.called =>
        /\ cmdRes.cmd \in {<<>>, S_docker, S_podman, S_sandbox_exec}
        /\ cmdRes.cmd # <<>> => (cmdRes.cmd \in Probed /\ cmdRes.cmd \in present)
        /\ cmdRes.err # NoErr => cmdRes.cmd = <<>>

\* an explicit name resolved while another backend exists as well
C27_Witness ==
    /\ cmdRes.called
    /\ cmdRes.cmd = S_podman
    /\ cmdRes.probed = <<S_podman>>
    /\ {S_docker, S_podman} \subseteq present

\* a valid name whose executable is missing: an error and no backend
C27_WitnessError ==
    /\ cmdRes.called
    /\ cmdRes.err = ErrMissingCommand
    /\ cmdRes.probed = <<S_docker>>
    /\ S_podman \in present

\* the step is a PersistentPreRunE in which LoadConfig returned a config
ConfigLoaded ==
    /\ pc = "PersistentPreRunE"
    /\ ~IsInsideSandbox(env)
    /\ cfgRes'.called
    /\ cfgRes'.err = NoErr
    /\ ~cfgRes'.cfg.isNil

\* how the process goes on after Start replaced its image, returned an
\* error, or returned nil
EndsAsStartEnded ==
    \/ launch'.state = "replaced" /\ pc' = "PersistentPreRunE" /\ hops' = hops + 1
    \/ launch'.state = "returned" /\ launch'.err # NoErr /\ pc' = "exit1"
    \/ launch'.state = "returned" /\ launch'.err = NoErr /\ pc' = "exit0"

\* C28: a process whose LoadConfig returned a config does not reach RunE:
\* Start replaces the process image, or returns an error with which the
\* command is aborted, or returns nil and the process exits with status 0.
C28_ConfiguredProcessNeverRunsUnsandboxed ==
    [][ConfigLoaded => (pc' # "RunE" /\ EndsAsStartEnded)]_vars

\* the part of C28 that holds in every startup: no RunE after a config
C28_NoRunEAfterConfig ==
    [][ConfigLoaded => (pc' # "RunE" /\ (EndsAsStartEnded \/ launch'.state = "panic"))]_vars

\* a startup that ended in neither of the three ways
C28_PanicAtStartup ==
    /\ pc = "exit2"
    /\ cfgRes.called
    /\ ~cfgRes.cfg.isNil
    /\ launch.state = "panic"

\* the step is a PersistentPreRunE of a process outside a sandbox
Startup == pc = "PersistentPreRunE" /\ ~IsInsideSandbox(env) /\ cfgRes'.called

\* the settings file has a tools.sandbox value / a tools.sandboxImage value
HasConfiguredSandbox == ~cli.cfg.isNil /\ ~cli.cfg.toolsNil /\ cli.cfg.Sandbox.kind # "nil"
HasConfiguredImage == ~cli.cfg.isNil /\ ~cli.cfg.toolsNil /\ cli.cfg.SandboxImage # <<>>

\* C29: the option handed to LoadConfig is the value of --sandbox whenever the
\* flag was given, true or false, otherwise tools.sandbox of the settings when
\* present, otherwise nil; the image override is the value of --sandbox-image
\* when given, otherwise the configured image; and with GEMINI_SANDBOX unset
\* --sandbox=false starts no sandbox, whatever the settings request.
C29_FlagsBeforeSettings ==
    [][Startup =>
        /\ cli.sandbox.changed => sandboxOption' = BoolOption(cli.sandbox.value)
        /\ (~cli.sandbox.changed /\ HasConfiguredSandbox)
               => sandboxOption' = cli.cfg.Sandbox
        /\ (~cli.sandbox.changed /\ ~HasConfiguredSandbox) => sandboxOption' = NilOption
        /\ cli.sandboxImage.changed => sandboxImageOption' = cli.sandboxImage.value
        /\ (~cli.sandboxImage.changed /\ HasConfiguredImage)
               => sandboxImageOption' = cli.cfg.SandboxImage
        /\ (~cli.sandboxImage.changed /\ ~HasConfiguredImage) => sandboxImageOption' = <<>>
        /\ <<cfgRes'.cfg, cfgRes'.err>>
               = LET r == LoadConfig(sandboxOption', sandboxImageOption', env, runtimeGOOS)
                 IN  <<r.cfg, r.err>>
        /\ (cli.sandbox = FlagSet(FALSE) /\ Getenv(env, S_GEMINI_SANDBOX) = <<>>)
               => /\ cfgRes'.cfg.isNil
                  /\ cfgRes'.err = NoErr
                  /\ launch' = Idle
                  /\ pc' = "RunE" ]_vars

\* --sandbox=false given against settings that request a sandbox and an image
C29_Witness ==
    /\ pc = "RunE"
    /\ cli.sandbox = FlagSet(FALSE)
    /\ cli.cfg.Sandbox = BoolOption(TRUE)
    /\ cli.cfg.SandboxImage = S_img_cfg
    /\ cli.sandboxImage = FlagSet(S_img_flag)
    /\ Getenv(env, S_GEMINI_SANDBOX) = <<>>
    /\ cfgRes.called
    /\ cfgRes.cfg.isNil
    /\ sandboxOption = BoolOption(FALSE)
    /\ sandboxImageOption = S_img_flag

\* the settings' sandbox and image used, no flag given
C29_WitnessSettings ==
    /\ cfgRes.called
    /\ ~cli.sandbox.changed
    /\ ~cli.sandboxImage.changed
    /\ sandboxOption = StringOption(S_podman)
    /\ cfgRes.cfg = Config(S_podman, S_img_cfg)
    /\ launch.state = "replaced"

-----------------------------------------------------------------------------
(* Properties of the non-interactive runner *)

\* the step is a turn of the loop in which a request was sent
Requested == run.pc = "loop" /\ run'.requests = run.requests + 1

\* the step is a turn of the loop that follows a turn with function calls
AfterCalls == run.pc = "loop" /\ run.executed # <<>>

\* parts answers calls: one response per call, in the same order
Answers(parts, calls) ==
    /\ Len(parts) = Len(calls)
    /\ \A i \in 1..Len(calls) : parts[i] = FunctionResponse(calls[i].Name)

StreamCalls(r) == collectedFunctionCalls(r.stream.parts)

\* C26 as stated: in every turn whose stream contains function calls, every
\* collected call is executed once, in order, and the tool responses (one per
\* call, same order) are sent as the next request; the run ends successfully
\* at the first turn whose stream contains no function call, having made one
\* request more than it had turns with function calls.
C26_CallsAnsweredUntilTextTurn ==
    [][ /\ (Requested /\ StreamCalls(run') # <<>>)
            => /\ run'.executed = StreamCalls(run')
               /\ Answers(run'.currentUserParts, run'.executed)
               /\ run'.pc = "loop"
        /\ AfterCalls
            => /\ Requested
               /\ Answers(run'.sent, run.executed)
        /\ (Requested /\ StreamCalls(run') = <<>>)
            => /\ run'.pc = "done"
               /\ run'.result = NoErr
               /\ run'.requests = run'.callTurns + 1 ]_vars

\* C26, amended: the calls of a turn are executed once and in order when the
\* stream of the turn ends without an error; their responses are sent as the
\* next request unless maxTurns requests were already made, and then the run
\* fails with 'max turns exceeded' without another request; the run ends at
\* the first turn whose stream ends without an error and without a function
\* call, successfully unless the JSON output cannot be encoded, and a
\* successful run made one request more than it had turns with function calls.
C26_CallsAnsweredWithinTheLimit ==
    [][ /\ (Requested /\ StreamCalls(run') # <<>> /\ run'.stream.end = "Done")
            => /\ run'.executed = StreamCalls(run')
               /\ Answers(run'.currentUserParts, run'.executed)
               /\ run'.pc = "loop"
        /\ (Requested /\ run'.stream.end = "error")
            => /\ run'.executed = <<>>
               /\ run'.pc = "done"
               /\ run'.result = ErrIterator
        /\ (AfterCalls /\ run.requests < run.maxTurns)
            => /\ Requested
               /\ Answers(run'.sent, run.executed)
        /\ (AfterCalls /\ run.requests >= run.maxTurns)
            => /\ run'.requests = run.requests
               /\ run'.pc = "done"
               /\ run'.result = ErrMaxTurns
        /\ (Requested /\ StreamCalls(run') = <<>> /\ run'.stream.end = "Done")
            => /\ run'.pc = "done"
               /\ run'.result =
                      (IF run'.outputFormat = "json" THEN run'.stream.encode ELSE NoErr)
        /\ (run'.pc = "done" /\ run'.result = NoErr)
            => run'.requests = run'.callTurns + 1 ]_vars

\* a run that ended successfully after two turns with function calls, the
\* second of them with two calls whose responses were the third request
C26_Witness ==
    /\ run.pc = "done"
    /\ run.result = NoErr
    /\ run.callTurns = 2
    /\ run.requests = 3
    /\ run.sent = <<FunctionResponse("list_directory"), FunctionResponse("read_file")>>

\* a run stopped by the turn limit with the responses of its last calls unsent
C26_WitnessLimit ==
    /\ run.pc = "done"
    /\ run.result = ErrMaxTurns
    /\ run.executed = <<>>
    /\ run.currentUserParts = <<FunctionResponse("read_file")>>
    /\ run.sent # run.currentUserParts

\* the turn limit the settings of the run ask for
TurnLimit(cfg) == IF cfg.modelNil \/ cfg.MaxSessionTurns <= 0 THEN 10 ELSE cfg.MaxSessionTurns

\* every request of the run so far was answered by function calls
OnlyCallTurns == run.callTurns = run.requests

\* C30: Run sends at most maxTurns requests, where maxTurns is MaxSessionTurns
\* when that is positive and 10 otherwise; a run in which every turn returned
\* a function call fails with 'max turns exceeded' after exactly maxTurns
\* requests; and every run returns, its response streams all ending.
C30_TurnsAreLimited ==
    /\ [](run.pc # "idle" =>
            /\ run.maxTurns = TurnLimit(run.cfg)
            /\ run.requests <= TurnLimit(run.cfg)
            /\ run.turnCount <= TurnLimit(run.cfg) + 1
            /\ (run.pc = "done" /\ OnlyCallTurns) =>
                   /\ run.result = ErrMaxTurns
                   /\ run.requests = TurnLimit(run.cfg)
            /\ (run.pc = "done" /\ run.result = ErrMaxTurns) =>
                   /\ OnlyCallTurns
                   /\ run.requests = TurnLimit(run.cfg))
    /\ <>(run.pc = "done")

\* a run with MaxSessionTurns = 0 stopped by the limit after ten requests
C30_Witness ==
    /\ run.pc = "done"
    /\ ~run.cfg.modelNil
    /\ run.cfg.MaxSessionTurns = 0
    /\ run.result = ErrMaxTurns
    /\ run.requests = 10
    /\ run.callTurns = 10

\* a run stopped by a configured limit
C30_WitnessConfigured ==
    /\ run.pc = "done"
    /\ run.cfg.MaxSessionTurns = MaxSessionTurnsMax
    /\ run.result = ErrMaxTurns
    /\ run.requests = MaxSessionTurnsMax

====
